---- MODULE Spec2Model ----
(***************************************************************************)
(* Model of the WireGuard benchmark campaign of main.py: configuration     *)
(* discovery, the per-configuration benchmark (tunnel up, latency probe,   *)
(* throughput probe, tunnel down), the result list, its final sort, the    *)
(* campaign-level cleanup and the final report.  KeyboardInterrupt is an   *)
(* asynchronous exception that may be raised at any step.                  *)
(***************************************************************************)
EXTENDS Integers, Sequences, FiniteSets, TLC

\* ---------------------------------------------------------------- bounds
MaxCodes == 2        \* number of country codes given on the command line
MaxConfigs == 3      \* length of the discovered configuration list
MaxLatency == 2      \* latency values are 1..MaxLatency
MaxSpeed == 2        \* download speeds are 1..MaxSpeed

\* ------------------------------------------------------- values and inputs
\* A measurement is None (Python None) or a one-element tuple holding a number.
None == <<>>
Some(v) == <<v>>

\* os.listdir(config_folder): file names as sequences of characters, the
\* extension being the last token.
ConfigFolder ==
    << <<"u", "a", ".conf">>, <<"u", "b", ".conf">>,
       <<"c", "h", ".conf">>, <<"u", "a", ".txt">> >>

\* country codes the user may pass
CountryCodes == { <<"u">>, <<"u", "a">>, <<"c">>, <<"d">> }

\* f.startswith(country_code)
StartsWith(f, code) ==
    /\ Len(code) <= Len(f)
    /\ SubSeq(f, 1, Len(code)) = code

\* f.endswith('.conf')
EndsWithConf(f) == Len(f) >= 1 /\ f[Len(f)] = ".conf"

RECURSIVE FilterFiles(_, _)
\* [f for f in os.listdir(config_folder) if f.endswith('.conf') and f.startswith(country_code)]
FilterFiles(listing, code) ==
    IF listing = <<>> THEN <<>>
    ELSE LET f == Head(listing)
             rest == FilterFiles(Tail(listing), code)
         IN IF EndsWithConf(f) /\ StartsWith(f, code) THEN <<f>> \o rest ELSE rest

RECURSIVE DiscoverConfigs(_)
\* the loop over country_codes of main: valid_configs.extend(...) per code
DiscoverConfigs(codes) ==
    IF codes = <<>> THEN <<>>
    ELSE FilterFiles(ConfigFolder, Head(codes)) \o DiscoverConfigs(Tail(codes))

\* results of test_latency: the average of the parsed samples, or None
LatencyResults == {None} \cup { Some(v) : v \in 1..MaxLatency }

\* results of test_speed: (download, upload) or (None, None)
SpeedResults == { <<None, None>> } \cup { <<Some(v), Some(1)>> : v \in 1..MaxSpeed }

CodeSeqs == UNION { [1..n -> CountryCodes] : n \in 1..MaxCodes }

\* ------------------------------------------------------------------ state
VARIABLES
    country_codes,   \* argument of main
    valid_configs,   \* discovered configuration paths
    idx,             \* position of the for loop in valid_configs (0: not started)
    pc,              \* control position of main / benchmark_config
    exc,             \* exception in flight
    results,         \* the result list of main
    latency,         \* local of benchmark_config
    download_speed,  \* local of benchmark_config
    upload_speed,    \* local of benchmark_config
    cmds,            \* wg-quick invocations issued so far: <<"up"|"down", config>>
    active,          \* configurations whose tunnel is up
    probes,          \* probes started so far: <<"latency"|"speed", config>>
    displayed,       \* rows last passed to tabulate by display_results_table
    final_table,     \* <<>> or <<table>>: the value of final_table in main
    saved,           \* <<>> or <<table>>: contents of results.txt
    intAt,           \* -1, or Len(cmds) when the first KeyboardInterrupt was raised
    down_rc          \* -1, or the status of the last wg-quick down that returned

vars == << country_codes, valid_configs, idx, pc, exc, results, latency,
           download_speed, upload_speed, cmds, active, probes, displayed,
           final_table, saved, intAt, down_rc >>

Init ==
    /\ country_codes \in CodeSeqs
    /\ Len(DiscoverConfigs(country_codes)) <= MaxConfigs
    /\ valid_configs = <<>>
    /\ idx = 0
    /\ pc = "discover"
    /\ exc = "none"
    /\ results = <<>>
    /\ latency = None
    /\ download_speed = None
    /\ upload_speed = None
    /\ cmds = <<>>
    /\ active = {}
    /\ probes = <<>>
    /\ displayed = <<>>
    /\ final_table = <<>>
    /\ saved = <<>>
    /\ intAt = -1
    /\ down_rc = -1

\* the configuration benchmark_config is working on
config_path == valid_configs[idx]

\* ------------------------------------------------------------ pure helpers
\* the dict returned by benchmark_config
Record(c, l, d, u) ==
    [config |-> c, latency |-> l, download_speed |-> d, upload_speed |-> u]

\* table_data of display_results_table: one row per result
TableData(rs) ==
    [i \in 1..Len(rs) |->
        << rs[i].config, rs[i].latency, rs[i].download_speed, rs[i].upload_speed >>]

\* -x['download_speed'] raises TypeError on None
KeyRaises(rs) == \E i \in 1..Len(rs) : rs[i].download_speed = None

\* comparing two key tuples (-d, l): equal first elements lead to comparing the
\* latencies, and None < float raises TypeError (None against None is equal)
CompareRaises(rs) ==
    \E i, j \in 1..Len(rs) :
        /\ rs[i].download_speed = rs[j].download_speed
        /\ rs[i].latency # rs[j].latency
        /\ (rs[i].latency = None \/ rs[j].latency = None)

\* the key without the negation of the download speed: ascending download
KeyLess_NoNegate(a, b) ==
    \/ a.download_speed[1] < b.download_speed[1]
    \/ /\ a.download_speed[1] = b.download_speed[1]
       /\ a.latency # None /\ b.latency # None
       /\ a.latency[1] < b.latency[1]

\* key(a) < key(b) for the key (-download_speed, latency), both comparable
KeyLess(a, b) ==
    \/ a.download_speed[1] > b.download_speed[1]
    \/ /\ a.download_speed[1] = b.download_speed[1]
       /\ a.latency # None /\ b.latency # None
       /\ a.latency[1] < b.latency[1]

RECURSIVE InsertSorted_Unstable(_, _)
\* an insertion that puts r before the elements with an equal key
InsertSorted_Unstable(sorted, r) ==
    IF sorted = <<>> THEN <<r>>
    ELSE IF ~KeyLess(Head(sorted), r) THEN <<r>> \o sorted
         ELSE <<Head(sorted)>> \o InsertSorted_Unstable(Tail(sorted), r)

RECURSIVE InsertSorted(_, _)
\* stable insertion: r goes before the first element with a greater key
InsertSorted(sorted, r) ==
    IF sorted = <<>> THEN <<r>>
    ELSE IF KeyLess(r, Head(sorted)) THEN <<r>> \o sorted
         ELSE <<Head(sorted)>> \o InsertSorted(Tail(sorted), r)

RECURSIVE SortedBy(_)
\* list.sort(key=...): a stable sort by ascending key
SortedBy(rs) ==
    IF rs = <<>> THEN <<>>
    ELSE InsertSorted(SortedBy(SubSeq(rs, 1, Len(rs) - 1)), rs[Len(rs)])

\* the orders a list can be left in
Reorderings(rs) ==
    { [i \in 1..Len(rs) |-> rs[p[i]]] :
        p \in { q \in [1..Len(rs) -> 1..Len(rs)] :
                  \A a, b \in 1..Len(rs) : a # b => q[a] # q[b] } }

\* ---------------------------------------------------------------- actions
\* a discovery without the early return on an empty list
Discover_NoReturn ==
    /\ pc = "discover"
    /\ valid_configs' = DiscoverConfigs(country_codes)
    /\ pc' = "for"
    /\ UNCHANGED << country_codes, idx, exc, results, latency, download_speed,
                    upload_speed, cmds, active, probes, displayed, final_table,
                    saved, intAt, down_rc >>

\* main, lines 151-168: discovery and the early return
Discover ==
    /\ pc = "discover"
    /\ valid_configs' = DiscoverConfigs(country_codes)
    /\ pc' = IF valid_configs' = <<>> THEN "returned" ELSE "for"
    /\ UNCHANGED << country_codes, idx, exc, results, latency, download_speed,
                    upload_speed, cmds, active, probes, displayed, final_table,
                    saved, intAt, down_rc >>

\* main, line 172-173: next iteration calls benchmark_config, or the loop ends
ForNext ==
    /\ pc = "for"
    /\ IF idx < Len(valid_configs)
       THEN /\ idx' = idx + 1
            /\ pc' = "enter"
            /\ latency' = None
            /\ download_speed' = None
            /\ upload_speed' = None
       ELSE /\ pc' = "sort"
            /\ UNCHANGED << idx, latency, download_speed, upload_speed >>
    /\ UNCHANGED << country_codes, valid_configs, exc, results, cmds, active,
                    probes, displayed, final_table, saved, intAt, down_rc >>

\* an activate_wireguard that prints the failure and does not re-raise it
ActivateWireguard_NoRaise ==
    /\ pc = "enter"
    /\ cmds' = Append(cmds, <<"up", config_path>>)
    /\ \E ok \in BOOLEAN :
         active' = IF ok THEN active \cup {config_path} ELSE active
    /\ pc' = "latency"
    /\ UNCHANGED << country_codes, valid_configs, idx, exc, results, latency,
                    download_speed, upload_speed, probes, displayed,
                    final_table, saved, intAt, down_rc >>

\* a loop that catches the failed up and goes on with the next configuration
ActivateWireguard_Continue ==
    /\ pc = "enter"
    /\ cmds' = Append(cmds, <<"up", config_path>>)
    /\ \E ok \in BOOLEAN :
         IF ok
         THEN /\ active' = active \cup {config_path}
              /\ pc' = "latency"
         ELSE /\ active' = active
              /\ pc' = "for"
    /\ UNCHANGED << country_codes, valid_configs, idx, exc, results, latency,
                    download_speed, upload_speed, probes, displayed,
                    final_table, saved, intAt, down_rc >>

\* WireGuardManager.__enter__ / activate_wireguard: wg-quick up, check=True.
\* A non-zero status raises CalledProcessError out of __enter__, so __exit__
\* is not called, and main has no handler for it: control goes to finally.
ActivateWireguard ==
    /\ pc = "enter"
    /\ cmds' = Append(cmds, <<"up", config_path>>)
    /\ \E ok \in BOOLEAN :
         IF ok
         THEN /\ active' = active \cup {config_path}
              /\ pc' = "latency"
              /\ exc' = exc
         ELSE /\ active' = active
              /\ pc' = "finally"
              /\ exc' = "CalledProcessError"
    /\ UNCHANGED << country_codes, valid_configs, idx, results, latency,
                    download_speed, upload_speed, probes, displayed,
                    final_table, saved, intAt, down_rc >>

\* a benchmark that gives up on the configuration when the latency is None
TestLatency_AbortOnNone ==
    /\ pc = "latency"
    /\ \E l \in LatencyResults :
         /\ latency' = l
         /\ pc' = IF l = None THEN "exit" ELSE "speed"
    /\ probes' = Append(probes, <<"latency", config_path>>)
    /\ UNCHANGED << country_codes, valid_configs, idx, exc, results,
                    download_speed, upload_speed, cmds, active, displayed,
                    final_table, saved, intAt, down_rc >>

\* test_latency: a value or None, never raises an Exception
TestLatency ==
    /\ pc = "latency"
    /\ \E l \in LatencyResults : latency' = l
    /\ probes' = Append(probes, <<"latency", config_path>>)
    /\ pc' = "speed"
    /\ UNCHANGED << country_codes, valid_configs, idx, exc, results,
                    download_speed, upload_speed, cmds, active, displayed,
                    final_table, saved, intAt, down_rc >>

\* test_speed: (download, upload) or (None, None)
TestSpeed ==
    /\ pc = "speed"
    /\ \E s \in SpeedResults :
         /\ download_speed' = s[1]
         /\ upload_speed' = s[2]
    /\ probes' = Append(probes, <<"speed", config_path>>)
    /\ pc' = "exit"
    /\ UNCHANGED << country_codes, valid_configs, idx, exc, results, latency,
                    cmds, active, displayed, final_table, saved, intAt, down_rc >>

\* exit statuses of wg-quick down (check=False: any status is returned)
ReturnCodes == { 0, 1 }

\* an __exit__ that does not bring the tunnel down
AfterExit_NoDown(act, c) == act

\* the tunnels left up after WireGuardManager.__exit__ ran for configuration c
AfterExit(act, c) == act \ {c}

\* a deactivate_wireguard whose non-zero status escapes as an exception
DeactivateOnExit_Raises ==
    /\ pc = "exit"
    /\ cmds' = Append(cmds, <<"down", config_path>>)
    /\ active' = AfterExit(active, config_path)
    /\ down_rc' \in ReturnCodes
    /\ IF down_rc' # 0
       THEN /\ exc' = "CalledProcessError"
            /\ pc' = "finally"
       ELSE /\ exc' = exc
            /\ pc' = IF exc = "KeyboardInterrupt" THEN "except" ELSE "append"
    /\ UNCHANGED << country_codes, valid_configs, idx, results, latency,
                    download_speed, upload_speed, probes, displayed,
                    final_table, saved, intAt >>

\* WireGuardManager.__exit__ / deactivate_wireguard: wg-quick down, check=False;
\* __exit__ returns None, so an exception in flight keeps propagating
DeactivateOnExit ==
    /\ pc = "exit"
    /\ cmds' = Append(cmds, <<"down", config_path>>)
    /\ active' = AfterExit(active, config_path)
    /\ down_rc' \in ReturnCodes
    /\ pc' = IF exc = "KeyboardInterrupt" THEN "except" ELSE "append"
    /\ UNCHANGED << country_codes, valid_configs, idx, exc, results, latency,
                    download_speed, upload_speed, probes, displayed,
                    final_table, saved, intAt >>

\* a loop that keeps only the latest record
AppendResult_Overwrite ==
    /\ pc = "append"
    /\ results' = << Record(config_path, latency, download_speed, upload_speed) >>
    /\ pc' = "display"
    /\ UNCHANGED << country_codes, valid_configs, idx, exc, latency,
                    download_speed, upload_speed, cmds, active, probes,
                    displayed, final_table, saved, intAt, down_rc >>

\* benchmark_config returns the record; main, lines 174-175, appends it
AppendResult ==
    /\ pc = "append"
    /\ results' = Append(results,
                         Record(config_path, latency, download_speed, upload_speed))
    /\ pc' = "display"
    /\ UNCHANGED << country_codes, valid_configs, idx, exc, latency,
                    download_speed, upload_speed, cmds, active, probes,
                    displayed, final_table, saved, intAt, down_rc >>

\* main, lines 176-177: display_results_table(results); time.sleep(5)
DisplayAndSleep ==
    /\ pc = "display"
    /\ displayed' = TableData(results)
    /\ pc' = "for"
    /\ UNCHANGED << country_codes, valid_configs, idx, exc, results, latency,
                    download_speed, upload_speed, cmds, active, probes,
                    final_table, saved, intAt, down_rc >>

\* a ranking that keeps the best record only
SortKeyed_BestOnly(rs) == SubSeq(SortedBy(rs), 1, 1)

\* the list after a successful results.sort(key=lambda x: (-download, latency))
SortKeyed(rs) == SortedBy(rs)

\* main, line 180: results.sort(...).  A TypeError is not caught by
\* 'except KeyboardInterrupt'; raised while the keys are computed it leaves
\* the list as it was, raised by a comparison it leaves it in some order.
SortResults ==
    /\ pc = "sort"
    /\ IF KeyRaises(results)
       THEN /\ results' = results
            /\ exc' = "TypeError"
       ELSE IF CompareRaises(results)
       THEN /\ results' \in Reorderings(results)
            /\ exc' = "TypeError"
       ELSE /\ results' = SortKeyed(results)
            /\ exc' = exc
    /\ pc' = "finally"
    /\ UNCHANGED << country_codes, valid_configs, idx, latency, download_speed,
                    upload_speed, cmds, active, probes, displayed, final_table,
                    saved, intAt, down_rc >>

\* main, lines 182-183: the handler of KeyboardInterrupt
ExceptKeyboardInterrupt ==
    /\ pc = "except"
    /\ exc' = "none"
    /\ pc' = "finally"
    /\ UNCHANGED << country_codes, valid_configs, idx, results, latency,
                    download_speed, upload_speed, cmds, active, probes,
                    displayed, final_table, saved, intAt, down_rc >>

\* main, line 188: last_config_path = valid_configs[-1]
last_config_path == valid_configs[Len(valid_configs)]

\* main, lines 185-194: the finally block issues wg-quick down for
\* last_config_path; an exception still in flight then leaves main
Cleanup ==
    /\ pc = "finally"
    /\ IF valid_configs # <<>>
       THEN /\ cmds' = Append(cmds, <<"down", last_config_path>>)
            /\ active' = active \ {last_config_path}
            /\ down_rc' \in ReturnCodes
       ELSE UNCHANGED << cmds, active, down_rc >>
    /\ pc' = IF exc = "none" THEN "final" ELSE "crashed"
    /\ UNCHANGED << country_codes, valid_configs, idx, exc, results, latency,
                    download_speed, upload_speed, probes, displayed,
                    final_table, saved, intAt >>

\* a final display of the last record only
FinalView_LastOnly(rs) ==
    IF rs = <<>> THEN TableData(rs) ELSE TableData(<< rs[Len(rs)] >>)

\* the table handed to the final display_results_table
FinalView(rs) == TableData(rs)

\* main, lines 197-198: final_table = display_results_table(results)
FinalDisplay ==
    /\ pc = "final"
    /\ displayed' = FinalView(results)
    /\ final_table' = << FinalView(results) >>
    /\ pc' = "save"
    /\ UNCHANGED << country_codes, valid_configs, idx, exc, results, latency,
                    download_speed, upload_speed, cmds, active, probes, saved,
                    intAt, down_rc >>

\* save_results_to_file: writes the table, or fails and only prints
SaveResults ==
    /\ pc = "save"
    /\ \E ok \in BOOLEAN : saved' = IF ok THEN final_table ELSE saved
    /\ pc' = "done"
    /\ UNCHANGED << country_codes, valid_configs, idx, exc, results, latency,
                    download_speed, upload_speed, cmds, active, probes,
                    displayed, final_table, intAt, down_rc >>

\* control positions inside the try block of main
TryPcs == { "for", "enter", "latency", "speed", "exit", "append", "display", "sort" }
\* control positions at which an external command or probe is about to run
CallPcs == { "enter", "latency", "speed", "exit", "finally" }

\* KeyboardInterrupt raised at the current position.  started: the external
\* call of this position was already issued when the signal arrived.
\* Inside the with body the exception first passes through __exit__; inside
\* __enter__ or __exit__ and elsewhere in the try block it goes straight to
\* the handler; in the handler, the finally block or the final report nothing
\* catches it.
Interrupt ==
    /\ pc \in TryPcs \cup { "except", "finally", "final", "save" }
    /\ \E started \in BOOLEAN :
         /\ started => pc \in CallPcs
         /\ cmds' = IF started /\ pc = "enter" THEN Append(cmds, <<"up", config_path>>)
                    ELSE IF started /\ pc = "exit" THEN Append(cmds, <<"down", config_path>>)
                    ELSE IF started /\ pc = "finally"
                         THEN Append(cmds, <<"down", last_config_path>>)
                    ELSE cmds
         /\ probes' = IF started /\ pc = "latency" THEN Append(probes, <<"latency", config_path>>)
                      ELSE IF started /\ pc = "speed" THEN Append(probes, <<"speed", config_path>>)
                      ELSE probes
         /\ IF started /\ pc = "enter"
            THEN \E up \in BOOLEAN :
                   active' = IF up THEN active \cup {config_path} ELSE active
            ELSE IF started /\ pc = "exit" THEN active' = active \ {config_path}
            ELSE IF started /\ pc = "finally" THEN active' = active \ {last_config_path}
            ELSE active' = active
    /\ exc' = "KeyboardInterrupt"
    /\ pc' = IF pc \in { "latency", "speed" } THEN "exit"
             ELSE IF pc \in TryPcs THEN "except"
             ELSE IF pc = "except" THEN "finally"
             ELSE "crashed"
    /\ intAt' = IF intAt = -1 THEN Len(cmds) ELSE intAt
    /\ UNCHANGED << country_codes, valid_configs, idx, results, latency,
                    download_speed, upload_speed, displayed, final_table, saved, down_rc >>

Next ==
    \/ Discover
    \/ ForNext
    \/ ActivateWireguard
    \/ TestLatency
    \/ TestSpeed
    \/ DeactivateOnExit
    \/ AppendResult
    \/ DisplayAndSleep
    \/ SortResults
    \/ ExceptKeyboardInterrupt
    \/ Cleanup
    \/ FinalDisplay
    \/ SaveResults
    \/ Interrupt

Spec == Init /\ [][Next]_vars

\* ------------------------------------------------------------- properties
Terminated == pc \in { "done", "crashed" }
Interrupted == intAt # -1

\* number of wg-quick invocations of one kind among cs[from..Len(cs)]
CountCmds(cs, kind, from) ==
    Cardinality({ k \in from..Len(cs) : cs[k][1] = kind })
CountCmdsFor(cs, kind, c, from) ==
    Cardinality({ k \in from..Len(cs) : cs[k] = <<kind, c>> })
CountProbes(ps, kind) ==
    Cardinality({ k \in 1..Len(ps) : ps[k][1] = kind })

\* C1: at every moment of a campaign at most one configuration's tunnel is
\* Active (successful up, no down attempted for it since)
C1_AtMostOneActive == Cardinality(active) <= 1

\* a second configuration's tunnel is up after the first one was brought down
C1_Witness ==
    /\ idx >= 2
    /\ active = {config_path}
    /\ \E k \in 1..Len(cmds) : cmds[k][1] = "down" /\ cmds[k][2] # config_path

\* C2: when the process ends, every configuration for which wg-quick up was
\* invoked has had a wg-quick down attempted after that up
C2_DownAfterEveryUp ==
    Terminated =>
        \A k \in 1..Len(cmds) :
            cmds[k][1] = "up" =>
                \E m \in (k + 1)..Len(cmds) : cmds[m] = <<"down", cmds[k][2]>>

\* C3: whenever the cleanup step of main issues wg-quick down, its target is
\* the configuration benchmark_config was last entered for (if it was
\* entered at all)
C3_CleanupTargetsLastEngaged ==
    [][(pc = "finally" /\ idx >= 1 /\ Len(cmds') = Len(cmds) + 1)
          => cmds'[Len(cmds')] = <<"down", valid_configs[idx]>>]_vars

\* C4: a failed up is fatal to its configuration only: in a run without
\* interruption every discovered configuration gets its up attempted, and
\* records exist exactly for the configurations that were probed
C4_CampaignContinuesAfterFailedUp ==
    (Terminated /\ ~Interrupted) =>
        /\ CountCmds(cmds, "up", 1) = Len(valid_configs)
        /\ Len(results) = CountProbes(probes, "latency")

\* C5: whatever the outcomes of the probes and of the ups, a run that is not
\* interrupted ends with the final report of all accumulated records
C5_ReachesFinalReport ==
    (Terminated /\ ~Interrupted) =>
        /\ pc = "done"
        /\ final_table # <<>>
        /\ Len(final_table[1]) = Len(results)

\* C6: from the interruption on the result list is left as it is (nothing
\* lost, nothing added), and the final report made after cleanup has one row
\* per record, in order, with the record's values
C6_InterruptKeepsRecords ==
    [][/\ Interrupted' => results' = results
       /\ (Interrupted /\ pc = "final" /\ pc' = "save") =>
            /\ final_table' # <<>>
            /\ Len(final_table'[1]) = Len(results)
            /\ \A i \in 1..Len(results) :
                 final_table'[1][i] = << results[i].config, results[i].latency,
                                         results[i].download_speed,
                                         results[i].upload_speed >>]_vars

\* an interrupted run that reported the records of the configurations
\* completed before the interruption, fewer than were discovered
C6_Witness ==
    /\ pc = "done"
    /\ Interrupted
    /\ Len(results) >= 1
    /\ Len(results) < Len(valid_configs)
    /\ final_table # <<>>
    /\ Len(final_table[1]) = Len(results)

\* C7: in a run interrupted while a configuration was engaged, exactly one
\* wg-quick down is issued for that configuration from the interrupt to the
\* end of the process
C7_ExactlyOneDownAfterInterrupt ==
    (pc = "done" /\ Interrupted /\ idx >= 1) =>
        CountCmdsFor(cmds, "down", valid_configs[idx], intAt + 1) = 1

\* records with an absent download speed come after all others
AbsentLast(rs) ==
    \A i, j \in 1..Len(rs) :
        (i < j /\ rs[i].download_speed = None) => rs[j].download_speed = None

\* C8: ranking puts every record with an absent download speed after all
\* records with a present download speed
C8_AbsentDownloadRanksLast ==
    [][(pc = "sort" /\ pc' = "finally") => AbsentLast(results')]_vars

\* latency order of the ranked view; two absent latencies count as equal
LatLeq(a, b) == IF a = None \/ b = None THEN a = b ELSE a[1] <= b[1]

\* rows <<config, latency, download, upload>> in ranked order
RankedRows(t) ==
    \A i \in 1..(Len(t) - 1) :
        /\ t[i][3] # None
        /\ t[i + 1][3] # None
        /\ \/ t[i][3][1] > t[i + 1][3][1]
           \/ /\ t[i][3][1] = t[i + 1][3][1]
              /\ LatLeq(t[i][2], t[i + 1][2])

\* b holds the elements of a in some order
IsPermutationOf(b, a) ==
    /\ Len(a) = Len(b)
    /\ \E p \in [1..Len(a) -> 1..Len(a)] :
         /\ \A x, y \in 1..Len(a) : x # y => p[x] # p[y]
         /\ \A k \in 1..Len(a) : b[k] = a[p[k]]

\* C9: in a campaign that runs to completion the sort leaves a permutation of
\* the ledger, and the final view is ordered by descending download speed,
\* then ascending latency
C9_FinalViewRanked ==
    [][/\ (pc = "sort" /\ pc' = "finally" /\ exc' = "none")
            => IsPermutationOf(results', results)
       /\ (~Interrupted /\ pc = "final" /\ pc' = "save")
            => /\ final_table' # <<>>
               /\ Len(final_table'[1]) = Len(results)
               /\ RankedRows(final_table'[1])]_vars

\* a completed campaign whose final view has three rows not in insertion
\* order of the configurations
C9_Witness ==
    /\ pc = "done"
    /\ ~Interrupted
    /\ final_table # <<>>
    /\ Len(final_table[1]) = 3
    /\ final_table[1][1][1] # valid_configs[1]
    /\ final_table[1][1][3] # final_table[1][3][3]

SameKey(r, s) == r.download_speed = s.download_speed /\ r.latency = s.latency

\* C10: the sort is stable: records with the same (download speed, latency)
\* keep their relative insertion order
C10_RankingStable ==
    [][(pc = "sort" /\ pc' = "finally" /\ exc' = "none") =>
         \E p \in [1..Len(results) -> 1..Len(results)] :
            /\ \A x, y \in 1..Len(results) : x # y => p[x] # p[y]
            /\ \A k \in 1..Len(results) : results'[k] = results[p[k]]
            /\ \A x, y \in 1..Len(results) :
                 (x < y /\ SameKey(results'[x], results'[y])) => p[x] < p[y]]_vars

\* a sorted ledger in which two records of different configurations share
\* their key and a record with a greater download speed was moved ahead
C10_Witness ==
    /\ pc = "final"
    /\ ~Interrupted
    /\ Len(results) = 3
    /\ results[1].config # valid_configs[1]
    /\ \E i, j \in 1..Len(results) :
         /\ i < j
         /\ SameKey(results[i], results[j])
         /\ results[i].config # results[j].config

\* C11: the ledger only grows, by exactly one record and only when a
\* completed benchmark_config's record is appended; records already in it stay
\* in place until the sort; after the i-th completed invocation its length is i
C11_LedgerGrowsByOne ==
    [][/\ Len(results') >= Len(results)
       /\ Len(results') # Len(results) =>
            (pc = "append" /\ Len(results') = Len(results) + 1)
       /\ pc # "sort" => SubSeq(results', 1, Len(results)) = results
       /\ pc' = "display" => Len(results') = idx']_vars

\* the third invocation completed, one of the records having absent values
C11_Witness ==
    /\ pc = "display"
    /\ idx = 3
    /\ Len(results) = 3
    /\ \E i \in 1..3 : results[i].download_speed = None

\* C12: a probe starts only while the tunnel of the configuration being
\* benchmarked is up, and the handle's down on the normal path is issued only
\* after the latency and the throughput probe of that configuration
C12_ProbesOnlyWhileActive ==
    [][/\ Len(probes') > Len(probes) => config_path \in active
       /\ (pc = "exit" /\ exc = "none" /\ Len(cmds') > Len(cmds)) =>
            /\ Len(probes) >= 2
            /\ probes[Len(probes) - 1] = <<"latency", config_path>>
            /\ probes[Len(probes)] = <<"speed", config_path>>]_vars

\* both probes of the second configuration ran and its tunnel was released
C12_Witness ==
    /\ pc = "append"
    /\ idx = 2
    /\ active = {}
    /\ Len(probes) = 4
    /\ cmds[Len(cmds)] = <<"down", config_path>>

\* C13: when discovery finds nothing, main returns with an empty ledger, no
\* report, and no wg-quick invocation at all
C13_NoConfigsNoTunnel ==
    (pc # "discover" /\ valid_configs = <<>>) =>
        /\ pc = "returned"
        /\ results = <<>>
        /\ cmds = <<>>
        /\ final_table = <<>>

\* two country codes, neither matching a file
C13_Witness ==
    /\ pc = "returned"
    /\ Len(country_codes) = 2
    /\ valid_configs = <<>>

\* C14: over a campaign that runs to completion the number of wg-quick up
\* invocations equals the number of wg-quick down invocations
C14_UpsEqualDowns ==
    (pc = "done" /\ ~Interrupted) =>
        CountCmds(cmds, "up", 1) = CountCmds(cmds, "down", 1)

\* C15: also after an interruption the final view is in ranked order (here for
\* ledgers whose download speeds are all present)
C15_InterruptedFinalViewRanked ==
    [][(/\ Interrupted
        /\ pc = "final" /\ pc' = "save"
        /\ \A i \in 1..Len(results) : results[i].download_speed # None)
          => (final_table' # <<>> /\ RankedRows(final_table'[1]))]_vars

\* a step in which a wg-quick down is issued
DownIssued == Len(cmds') = Len(cmds) + 1 /\ cmds'[Len(cmds')][1] = "down"

\* C16: a down that reports failure is never escalated: what follows it (the
\* exception in flight, the next control position, the ledger) is what
\* follows a successful down
C16_DownFailureNotEscalated ==
    [][(DownIssued /\ down_rc' = 1) =>
         /\ results' = results
         /\ pc = "exit" =>
              \/ exc' = exc /\ pc' = (IF exc = "KeyboardInterrupt" THEN "except" ELSE "append")
              \/ exc' = "KeyboardInterrupt" /\ pc' = "except"
         /\ pc = "finally" =>
              \/ exc' = exc /\ pc' = (IF exc = "none" THEN "final" ELSE "crashed")
              \/ exc' = "KeyboardInterrupt" /\ pc' = "crashed"]_vars

\* the handle's down failed and the record of that configuration was appended
C16_Witness ==
    /\ pc = "display"
    /\ down_rc = 1
    /\ exc = "none"
    /\ Len(results) = idx
    /\ results[idx].config = config_path

\* C17 as stated: a ranking that succeeds leaves the ledger in insertion order
C17_RankingLeavesLedger ==
    [][(pc = "sort" /\ pc' = "finally" /\ exc' = "none") => results' = results]_vars

\* C17 amended: ranking sorts the ledger in place; it keeps exactly the same
\* records (none added, dropped or altered) and touches nothing displayed
C17_RankingPermutesLedger ==
    [][(pc = "sort" /\ pc' = "finally") =>
         /\ IsPermutationOf(results', results)
         /\ displayed' = displayed
         /\ final_table' = final_table]_vars

\* a ranked ledger of two records in the reverse of their insertion order
C17_Witness ==
    /\ pc = "final"
    /\ ~Interrupted
    /\ Len(results) = 2
    /\ valid_configs[1] # valid_configs[2]
    /\ results[1].config = valid_configs[2]
    /\ results[2].config = valid_configs[1]

\* C18: wg-quick up is attempted at most once per configuration file
C18_UpAtMostOncePerConfig ==
    \A k, m \in 1..Len(cmds) :
        (cmds[k][1] = "up" /\ cmds[k] = cmds[m]) => k = m

\* C19: in an invocation whose up succeeded the latency probe runs once, then
\* the throughput probe once, whatever the latency probe returned
C19_ProbeOrder ==
    /\ pc = "latency" => Len(probes) = 2 * (idx - 1)
    /\ pc = "speed" =>
         /\ Len(probes) = 2 * idx - 1
         /\ probes[Len(probes)] = <<"latency", config_path>>
    /\ ((pc = "exit" /\ exc = "none") \/ pc \in { "append", "display" }) =>
         /\ Len(probes) = 2 * idx
         /\ \A k \in 1..idx :
              /\ probes[2 * k - 1] = <<"latency", valid_configs[k]>>
              /\ probes[2 * k] = <<"speed", valid_configs[k]>>

\* the throughput probe of the second configuration ran after a latency
\* probe that returned None
C19_Witness ==
    /\ pc = "append"
    /\ idx = 2
    /\ latency = None
    /\ download_speed # None
    /\ probes[Len(probes)] = <<"speed", config_path>>

\* the configurations of the ledger are the first ones discovered, in order
LedgerIsPrefix ==
    /\ Len(results) <= Len(valid_configs)
    /\ \A i \in 1..Len(results) : results[i].config = valid_configs[i]

\* C20: until the final sort, the ledger's configurations are a prefix of
\* valid_configs: no step other than the sort breaks it
C20_LedgerPrefixOfConfigs ==
    [][((pc # "sort" \/ pc' # "finally") /\ LedgerIsPrefix) => LedgerIsPrefix']_vars

\* two records in the ledger while the third configuration is being entered
C20_Witness ==
    /\ pc = "enter"
    /\ idx = 3
    /\ Len(results) = 2
    /\ LedgerIsPrefix

====
